---- MODULE Spec2Model ----
(***************************************************************************)
(* A model of DkS3, the object-storage client of darkcompet/nodejs-s3.     *)
(*                                                                         *)
(* The class wraps the AWS SDK: every method is a sequence of local file   *)
(* system calls and remote requests.  The remote store, the SDK and the    *)
(* local file system are the environment: a remote request either resolves *)
(* or rejects, a batch delete reports the keys it deleted, a file read     *)
(* succeeds or throws.  The client (the caller of the class) makes one     *)
(* call at a time; requests a method fires without awaiting them stay in   *)
(* flight after the method has returned.                                   *)
(*                                                                         *)
(* The source holds three variants of the class (lines 12-204, 217-402 and *)
(* 415-660 of src/unnamed/part_000).  Methods whose bodies differ between  *)
(* the variants are modelled once per body, under the source's names.      *)
(* One bucket is modelled: the bucket name is passed through unchanged to  *)
(* every request.                                                          *)
(***************************************************************************)
EXTENDS Integers, Sequences, FiniteSets, TLC

(***************************************************************************)
(* Bounds of the model.                                                    *)
(***************************************************************************)
\* Keys per listing page (the service's page size; 1000 at the real service).
PageSize == 2

\* Calls the client makes in one run.
MaxCalls == 2

(***************************************************************************)
(* Program constants.                                                      *)
(***************************************************************************)
\* The file-count ceiling of a folder upload.
Ceiling == 10000

(***************************************************************************)
(* Strings.                                                                *)
(***************************************************************************)
StartsWith(s, p) == Len(p) <= Len(s) /\ SubSeq(s, 1, Len(p)) = p

EndsWith(s, p) == Len(p) <= Len(s) /\ SubSeq(s, Len(s) - Len(p) + 1, Len(s)) = p

\* path.join of a directory and a relative path of clean segments.
Join(dir, rel) == dir \o "/" \o rel

RECURSIVE LastSlash(_, _)
\* The position of the last "/" among the first i characters of s, 0 if none.
LastSlash(s, i) ==
    IF i = 0 THEN 0
    ELSE IF SubSeq(s, i, i) = "/" THEN i
    ELSE LastSlash(s, i - 1)

\* The directory a path's file lies in.
Dirname(p) ==
    LET i == LastSlash(p, Len(p))
    IN  IF i = 0 THEN "." ELSE SubSeq(p, 1, i - 1)

(***************************************************************************)
(* The local file system the uploads read.                                 *)
(***************************************************************************)
\* Local paths a single-file upload is called with.
LocalPaths == {"data/clip.mp4", "data/ghost.mp4", "data", "data/locked.bin"}

\* "file": a regular file; "dir": a directory; "none": nothing there;
\* "unreadable": an entry that is no directory and whose read throws.
LocalKind(path) ==
    CASE path = "data/clip.mp4"   -> "file"
      [] path = "data/ghost.mp4"  -> "none"
      [] path = "data"            -> "dir"
      [] path = "data/locked.bin" -> "unreadable"
      [] path = "dist/a.png"      -> "file"
      [] path = "dist/b.txt"      -> "file"
      [] path = "dist/sub"        -> "dir"
      [] path = "mixed/ok.png"    -> "file"
      [] path = "mixed/gone.png"  -> "unreadable"
      [] path = "mixed/z.png"     -> "file"
      [] StartsWith(path, "huge/") -> "file"
      [] OTHER                    -> "none"

\* DkUnixShell.FileExisted: the path is an existing regular file.
FileExisted(path) == LocalKind(path) \in {"file", "unreadable"}

\* DkUnixShell.DirectoryExisted: the path is an existing directory.
DirectoryExisted(path) == LocalKind(path) = "dir"

\* fs_promise.readFile resolves (TRUE) or rejects (FALSE).
CanRead(path) == LocalKind(path) = "file"

\* The bytes fs_promise.readFile resolves with.
FileBuffer(path) == "bytes of " \o path

(***************************************************************************)
(* The remote store.                                                       *)
(***************************************************************************)
\* Every key of the model, in the order a listing returns keys.
KeyOrder ==
    << "top.txt", "up/a.png", "up/b.txt", "up/gone.png", "up/ok.png",
       "up/z.png", "wm/test/1", "wm/test/2", "wm/test/3", "wm/test/4",
       "wm/toy" >>

Keys == {KeyOrder[i] : i \in 1..Len(KeyOrder)}

RECURSIVE FirstMatching(_, _, _, _)
\* The first n keys, from position i of KeyOrder on, that are in the store
\* and start with the prefix.
FirstMatching(store, prefix, i, n) ==
    IF i > Len(KeyOrder) \/ n = 0 THEN << >>
    ELSE IF KeyOrder[i] \in DOMAIN store /\ StartsWith(KeyOrder[i], prefix)
         THEN << KeyOrder[i] >> \o FirstMatching(store, prefix, i + 1, n - 1)
         ELSE FirstMatching(store, prefix, i + 1, n)

\* The keys of the store that start with the prefix.
Matching(store, prefix) == {k \in DOMAIN store : StartsWith(k, prefix)}

\* What listObjectsV2 resolves with: one page and the truncation flag.
ListObjectsV2(store, prefix) ==
    [Contents    |-> FirstMatching(store, prefix, 1, PageSize),
     IsTruncated |-> Cardinality(Matching(store, prefix)) > PageSize]

\* The store after a put of body under key.
PutObject(store, key, body) ==
    [k \in DOMAIN store \cup {key} |-> IF k = key THEN body ELSE store[k]]

\* The store after the keys are removed.
RemoveObjects(store, keys) == [k \in DOMAIN store \ keys |-> store[k]]

Range(seq) == {seq[i] : i \in 1..Len(seq)}

NoListing == [Contents |-> << >>, IsTruncated |-> FALSE]

\* The function of no keys.
EmptyMap == [k \in {} |-> ""]

(***************************************************************************)
(* State.                                                                  *)
(***************************************************************************)
VARIABLES
    s3,          \* the bucket: a function from the keys it holds to bodies
    op,          \* the method the client called last ("none" before any)
    pc,          \* where that call is: a step of its body, "returned", "raised"
    args,        \* its arguments
    result,      \* the value it returned
    pending,     \* the awaited remote requests that have no response yet
    issued,      \* the awaited remote requests this call has sent
    calls,       \* calls made so far
    prev,        \* the call before this one: method, argument, outcome
    listResult,  \* the listing a delete or download call got last
    deleted,     \* objects this delete call has removed
    clean,       \* every response of this call resolved, each delete in full
    fileNames,   \* the directory listing a folder upload walks
    idx,         \* the entry the walk is at
    puts,        \* the uploads folder uploads fired: request, state, callbacks
    streams,     \* the per-object downloads: key, target path, state
    dirs,        \* local directories under the output directory
    files,       \* local files the downloads wrote: path -> bytes
    uploaded     \* keys UploadFileAsync stored, with their bytes

callVars == << op, pc, args, result, pending, issued, calls, prev >>
deleteVars == << listResult, deleted, clean >>
folderVars == << fileNames, idx, puts >>
downloadVars == << streams, dirs, files, uploaded >>
vars == << s3, callVars, deleteVars, folderVars, downloadVars >>

NoArgs == [local |-> "", remote |-> "", acl |-> "null"]
NoResult == [data |-> "undefined", err |-> "undefined"]
NoCall == [op |-> "none", remote |-> "", ok |-> FALSE, deleted |-> 0]

\* The client may call a method: no call of its own is under way.
Free == pc \in {"idle", "returned", "raised"} /\ calls < MaxCalls

\* What a new call leaves of the one before it.
Summary ==
    [op |-> op, remote |-> args.remote, ok |-> pc = "returned" /\ clean,
     deleted |-> deleted]

\* The bookkeeping of a call's first step.
Begin(name, a) ==
    /\ Free
    /\ op' = name
    /\ args' = a
    /\ calls' = calls + 1
    /\ prev' = Summary
    /\ deleted' = 0
    /\ clean' = TRUE
    /\ listResult' = NoListing

InitCommon ==
    /\ op = "none"
    /\ pc = "idle"
    /\ args = NoArgs
    /\ result = NoResult
    /\ pending = {}
    /\ issued = {}
    /\ calls = 0
    /\ prev = NoCall
    /\ listResult = NoListing
    /\ deleted = 0
    /\ clean = TRUE
    /\ fileNames = << >>
    /\ idx = 0
    /\ puts = << >>
    /\ streams = << >>
    /\ files = EmptyMap
    /\ uploaded = EmptyMap

(***************************************************************************)
(* Single-file uploads: UploadFileAsync (lines 466-497; lines 54-83 are    *)
(* the same body over putObject) and PutFileAsync (lines 508-539).         *)
(***************************************************************************)
Keys1 == {"top.txt", "wm/test/1"}
ACLs == {"null", "public-read"}

\* The check skipped: every path goes on to the read.
FileMissing_Skipped(path) == FALSE

\* "File must exist": the check that throws "File not exist".
FileMissing(path) == ~FileExisted(path)

\* The error a failed fs_promise.readFile rejects with.
ReadError(path) ==
    CASE LocalKind(path) = "none" -> "ENOENT"
      [] LocalKind(path) = "dir"  -> "EISDIR"
      [] OTHER                    -> "EACCES"

\* The try block up to the awaited request: the check, the read, the send.
\* A throw lands in the catch, which returns {data: null, err: e}.
SendFile(api, path, key, acl) ==
    IF FileMissing(path)
    THEN /\ result' = [data |-> "null", err |-> "File not exist"]
         /\ pc' = "returned"
         /\ pending' = {}
         /\ issued' = {}
    ELSE IF ~CanRead(path)
    THEN /\ result' = [data |-> "null", err |-> ReadError(path)]
         /\ pc' = "returned"
         /\ pending' = {}
         /\ issued' = {}
    ELSE LET req == [api |-> api, Key |-> key, Body |-> FileBuffer(path),
                     ACL |-> acl]
         IN  /\ result' = NoResult
             /\ pc' = "send"
             /\ pending' = {req}
             /\ issued' = {req}

UploadFileAsync(path, key, acl) ==
    /\ Begin("UploadFileAsync", [local |-> path, remote |-> key, acl |-> acl])
    /\ SendFile("upload", path, key, acl)
    /\ UNCHANGED << s3, folderVars, downloadVars >>

PutFileAsync(path, key, acl) ==
    /\ Begin("PutFileAsync", [local |-> path, remote |-> key, acl |-> acl])
    /\ SendFile("putObject", path, key, acl)
    /\ UNCHANGED << s3, folderVars, downloadVars >>

\* The awaited upload or putObject settles: the method returns its result.
SendSettles ==
    /\ op \in {"UploadFileAsync", "PutFileAsync"}
    /\ pc = "send"
    /\ \E req \in pending :
        \/ /\ s3' = PutObject(s3, req.Key, req.Body)
           /\ result' = [data |-> IF req.api = "upload" THEN "SendData"
                                  ELSE "PutObjectOutput",
                         err |-> "null"]
           /\ uploaded' = IF op = "UploadFileAsync"
                          THEN PutObject(uploaded, req.Key, req.Body)
                          ELSE uploaded
        \/ /\ result' = [data |-> "null", err |-> "AWSError"]
           /\ UNCHANGED << s3, uploaded >>
    /\ pc' = "returned"
    /\ pending' = {}
    /\ UNCHANGED << op, args, issued, calls, prev, deleteVars, folderVars,
                    streams, dirs, files >>

(***************************************************************************)
(* Listings: ListObjectsAsync (lines 437-455) catches; ListObjects (lines  *)
(* 242-253, and the ListObjectsAsync of lines 34-45) does not.             *)
(***************************************************************************)
Prefixes == {"wm/test", "wm/", "up", ""}

ListRequest(prefix) == [api |-> "listObjectsV2", Prefix |-> prefix]

ListObjectsAsync(prefix) ==
    /\ Begin("ListObjectsAsync", [NoArgs EXCEPT !.remote = prefix])
    /\ pc' = "list"
    /\ pending' = {ListRequest(prefix)}
    /\ issued' = {ListRequest(prefix)}
    /\ result' = NoResult
    /\ UNCHANGED << s3, folderVars, downloadVars >>

ListObjects(prefix) ==
    /\ Begin("ListObjects", [NoArgs EXCEPT !.remote = prefix])
    /\ pc' = "list"
    /\ pending' = {ListRequest(prefix)}
    /\ issued' = {ListRequest(prefix)}
    /\ result' = NoResult
    /\ UNCHANGED << s3, folderVars, downloadVars >>

\* ListObjectsAsync's awaited listing settles inside its try block.
ListAsyncSettles ==
    /\ op = "ListObjectsAsync"
    /\ pc = "list"
    /\ \/ /\ listResult' = ListObjectsV2(s3, args.remote)
          /\ result' = [data |-> "ListObjectsV2Output", err |-> "null"]
       \/ /\ result' = [data |-> "null", err |-> "AWSError"]
          /\ UNCHANGED listResult
    /\ pc' = "returned"
    /\ pending' = {}
    /\ UNCHANGED << s3, op, args, issued, calls, prev, deleted, clean,
                    folderVars, downloadVars >>

\* ListObjects's awaited listing settles: the keys are logged and nothing is
\* returned, or the rejection leaves the method.
ListSettles ==
    /\ op = "ListObjects"
    /\ pc = "list"
    /\ \/ /\ listResult' = ListObjectsV2(s3, args.remote)
          /\ pc' = "returned"
       \/ /\ pc' = "raised"
          /\ UNCHANGED listResult
    /\ pending' = {}
    /\ UNCHANGED << s3, op, args, result, issued, calls, prev, deleted, clean,
                    folderVars, downloadVars >>

\* Buckets a run starts from.
InitialBuckets ==
    { EmptyMap,
      [k \in {"top.txt", "wm/test/1", "wm/test/2", "wm/test/3"} |-> "old"] }

Init ==
    /\ InitCommon
    /\ s3 \in InitialBuckets
    /\ dirs = {}

NextSingle ==
    \/ \E path \in LocalPaths, key \in Keys1, acl \in ACLs :
          UploadFileAsync(path, key, acl)
    \/ \E path \in LocalPaths, key \in Keys1, acl \in ACLs :
          PutFileAsync(path, key, acl)
    \/ SendSettles
    \/ \E prefix \in Prefixes : ListObjectsAsync(prefix)
    \/ \E prefix \in Prefixes : ListObjects(prefix)
    \/ ListAsyncSettles
    \/ ListSettles

SpecSingle == Init /\ [][NextSingle]_vars

(***************************************************************************)
(* C1.  A single-file upload of a local path that is no existing regular   *)
(* file returns null data and the "File not exist" error, and sends no     *)
(* remote request: the call is over in its first step, with nothing issued *)
(* and nothing awaited.                                                    *)
(***************************************************************************)
C1_NoRegularFile ==
    /\ op \in {"UploadFileAsync", "PutFileAsync"}
    /\ LocalKind(args.local) \in {"none", "dir"}

C1_NotFoundNoRemoteCall ==
    C1_NoRegularFile =>
        /\ pc = "returned"
        /\ result = [data |-> "null", err |-> "File not exist"]
        /\ issued = {}
        /\ pending = {}

C1_Witness ==
    /\ C1_NoRegularFile
    /\ args.local = "data/ghost.mp4"
    /\ pc = "returned"
    /\ result.err = "File not exist"

(***************************************************************************)
(* C2.  A single-round-trip operation (a listing, UploadFileAsync,         *)
(* PutFileAsync) never ends by raising; it returns a result value, of      *)
(* which at most one of payload and error is non-null, and after a failed  *)
(* check, read or request the payload is null and the error is not.        *)
(***************************************************************************)
SingleOps == {"ListObjectsAsync", "ListObjects", "UploadFileAsync", "PutFileAsync"}

C2_ReturnsResultNeverRaises ==
    op \in SingleOps =>
        /\ pc # "raised"
        /\ (pc = "returned" /\ result # NoResult) =>
              /\ result.data = "null" \/ result.err = "null"
              /\ result.data = "null" => result.err # "null"

(***************************************************************************)
(* Deletion by prefix: DeleteObjectAsync (lines 624-659; lines 168-203 and *)
(* 366-401 are the same body).                                             *)
(***************************************************************************)
DeleteRequest(keys) == [api |-> "deleteObjects", Objects |-> keys]

\* The recursion never taken.
HasMoreFiles_Never(listing) == FALSE

\* "If has more files, continue to delete".
HasMoreFiles(listing) == listing.IsTruncated

\* A key the listing did not return added to the request.
DeleteParams_WithUnlisted(listing) == Append(listing.Contents, "top.txt")

\* The first listed key left out of the request.
DeleteParams_SkipFirst(listing) ==
    IF listing.Contents = << >> THEN << >> ELSE Tail(listing.Contents)

\* The keys params_delete collects from the listing.
DeleteParams(listing) == listing.Contents

DeleteObjectAsync(prefix) ==
    /\ Begin("DeleteObjectAsync", [NoArgs EXCEPT !.remote = prefix])
    /\ pc' = "list"
    /\ pending' = {ListRequest(prefix)}
    /\ issued' = {ListRequest(prefix)}
    /\ result' = NoResult
    /\ UNCHANGED << s3, folderVars, downloadVars >>

\* The awaited listing settles: its keys go into one deleteObjects request,
\* or the rejection leaves the method.
DeleteListed ==
    /\ op = "DeleteObjectAsync"
    /\ pc = "list"
    /\ \/ LET listing == ListObjectsV2(s3, args.remote)
              req == DeleteRequest(DeleteParams(listing))
          IN  /\ listResult' = listing
              /\ pending' = {req}
              /\ issued' = issued \cup {req}
              /\ pc' = "delete"
              /\ UNCHANGED clean
       \/ /\ pc' = "raised"
          /\ pending' = {}
          /\ clean' = FALSE
          /\ UNCHANGED << listResult, issued >>
    /\ UNCHANGED << s3, op, args, result, calls, prev, deleted, folderVars,
                    downloadVars >>

\* The awaited deleteObjects settles: it resolves having deleted some or all
\* of the keys it named (deleteResult.Deleted), and the method lists again if
\* the listing was truncated and returns if not; or it rejects.
DeleteSettles ==
    /\ op = "DeleteObjectAsync"
    /\ pc = "delete"
    /\ \E req \in pending :
        \/ \E gone \in SUBSET Range(req.Objects) :
              /\ s3' = RemoveObjects(s3, gone)
              /\ deleted' = deleted + Cardinality(gone \cap DOMAIN s3)
              /\ clean' = (clean /\ gone = Range(req.Objects))
              /\ IF HasMoreFiles(listResult)
                 THEN /\ pc' = "list"
                      /\ pending' = {ListRequest(args.remote)}
                      /\ issued' = issued \cup {ListRequest(args.remote)}
                 ELSE /\ pc' = "returned"
                      /\ pending' = {}
                      /\ UNCHANGED issued
        \/ /\ pc' = "raised"
           /\ pending' = {}
           /\ clean' = FALSE
           /\ UNCHANGED << s3, deleted, issued >>
    /\ UNCHANGED << op, args, result, calls, prev, listResult, folderVars,
                    downloadVars >>

\* The keys a run of deletions may start with.
DeleteKeys == {"top.txt", "wm/test/1", "wm/test/2", "wm/test/3", "wm/test/4",
               "wm/toy"}

DeletePrefixes == {"wm/test", "wm/", "up"}

InitDelete ==
    /\ InitCommon
    /\ \E present \in SUBSET DeleteKeys : s3 = [k \in present |-> "old"]
    /\ dirs = {}

NextDelete ==
    \/ \E prefix \in DeletePrefixes : DeleteObjectAsync(prefix)
    \/ DeleteListed
    \/ DeleteSettles
    \/ PutFileAsync("data/clip.mp4", "wm/test/1", "null")
    \/ SendSettles

SpecDelete == InitDelete /\ [][NextDelete]_vars

\* Every request a delete call awaits is answered in the end.
FairDelete ==
    /\ SpecDelete
    /\ WF_vars(DeleteListed)
    /\ WF_vars(DeleteSettles)

Deleting == op = "DeleteObjectAsync"

\* The objects the call's prefix still matches.
Left == Matching(s3, args.remote)

C3_ReturnedState ==
    (Deleting /\ pc = "returned") =>
        /\ ~listResult.IsTruncated
        /\ clean => Left = {}

C3_PageAfterPage ==
    (Deleting /\ pc = "delete") =>
        /\ ~listResult.IsTruncated => pc' \in {"delete", "returned", "raised"}
        /\ listResult.IsTruncated => pc' \in {"delete", "list", "raised"}

C3_Terminates ==
    (Deleting /\ pc \in {"list", "delete"})
        ~> (pc \in {"returned", "raised"} \/ ~clean)

SecondDelete ==
    /\ Deleting
    /\ prev.op = "DeleteObjectAsync"
    /\ prev.remote = args.remote

C11_OneRequestOfTheListing ==
    /\ Cardinality(pending) <= 1
    /\ pc = "delete" => pending = {DeleteRequest(listResult.Contents)}
    /\ pc = "list" => pending = {ListRequest(args.remote)}

\* Every key that does not start with the prefix keeps its object as it is.
C11_OthersUnchanged ==
    \A k \in Keys \ {m \in Keys : StartsWith(m, args'.remote)} :
        /\ (k \in DOMAIN s3') = (k \in DOMAIN s3)
        /\ k \in DOMAIN s3 => s3'[k] = s3[k]

(***************************************************************************)
(* C11.  DeleteObjectAsync is sequential and deletes what it listed: in    *)
(* every step of a delete call at most one request is outstanding, a       *)
(* batch-delete request carries exactly the keys of the listing just       *)
(* before it, and no object whose key does not start with the prefix is    *)
(* changed.                                                                *)
(***************************************************************************)
C11_SequentialAndFramed ==
    [][Deleting' => (C11_OneRequestOfTheListing' /\ C11_OthersUnchanged)]_vars

\* A call that went through more than one page has returned, and an object
\* outside its prefix is still in the bucket.
C11_Witness ==
    /\ Deleting
    /\ pc = "returned"
    /\ args.remote = "wm/test"
    /\ deleted > PageSize
    /\ Left = {}
    /\ {"top.txt", "wm/toy"} \subseteq DOMAIN s3

(***************************************************************************)
(* Folder uploads: PutFolderAsync (lines 548-585; UploadFolderAsync of     *)
(* lines 92-129 is the same body) and UploadFolder (lines 261-327), which  *)
(* also skips every entry that is no .png and logs in a callback of its    *)
(* own.                                                                    *)
(***************************************************************************)
Folders == {"missing", "empty", "dist", "mixed", "huge"}

FolderOps == {"PutFolderAsync", "UploadFolder"}

\* The listing of a folder of one entry more than the ceiling.
HugeNames == [i \in 1..(Ceiling + 1) |-> "f" \o ToString(i) \o ".png"]

\* fs_promise.readdir rejects (ENOENT) for a folder that is not there.
FolderExists(folder) == folder # "missing"

\* What fs_promise.readdir resolves with: the direct entries, in the order
\* the file system gives them.
ReadDir(folder) ==
    CASE folder = "empty" -> << >>
      [] folder = "dist"  -> << "a.png", "b.txt", "sub" >>
      [] folder = "mixed" -> << "ok.png", "gone.png", "z.png" >>
      [] folder = "huge"  -> HugeNames
      [] OTHER            -> << >>

\* The listing always read from 'dist'.
ListedFolder_Dist(folder) == "dist"

\* The folder whose entries are listed: fromLocalFolderPath.
ListedFolder(folder) == folder

\* No ceiling.
TooMany_Never(names) == FALSE

\* "It is recommended to upload under 10k files".
TooMany(names) == Len(names) > Ceiling

\* The readdir and the two checks that abort before the walk.
StartFolder(folder) ==
    IF ~FolderExists(ListedFolder(folder))
    THEN /\ pc' = "raised"
         /\ UNCHANGED << fileNames, idx >>
    ELSE LET names == ReadDir(ListedFolder(folder))
         IN  IF names = << >> \/ TooMany(names)
             THEN /\ pc' = "returned"
                  /\ UNCHANGED << fileNames, idx >>
             ELSE /\ pc' = "walk"
                  /\ fileNames' = names
                  /\ idx' = 1

PutFolderAsync(folder, prefix) ==
    /\ Begin("PutFolderAsync", [NoArgs EXCEPT !.local = folder, !.remote = prefix])
    /\ StartFolder(folder)
    /\ UNCHANGED << s3, result, pending, issued, puts, downloadVars >>

UploadFolder(folder, prefix) ==
    /\ Begin("UploadFolder", [NoArgs EXCEPT !.local = folder, !.remote = prefix])
    /\ StartFolder(folder)
    /\ UNCHANGED << s3, result, pending, issued, puts, downloadVars >>

\* The entries the walk passes over: "Ignore folder", and in UploadFolder
\* "Ignore folder, non-png".
Ignored(name) ==
    \/ DirectoryExisted(Join(args.local, name))
    \/ op = "UploadFolder" /\ ~EndsWith(name, ".png")

\* The upload one entry fires: putObject with a callback, not awaited.
PutRequest(name) ==
    [call      |-> calls,
     Key       |-> args.remote \o "/" \o name,
     Body      |-> FileBuffer(Join(args.local, name)),
     state     |-> "sent",
     callbacks |-> 0]

\* One turn of the for loop: the entry is passed over, or its read throws
\* out of the method, or its upload is fired; after the last entry the
\* method returns.
WalkEntry ==
    /\ op \in FolderOps
    /\ pc = "walk"
    /\ LET name == fileNames[idx]
           next == IF idx = Len(fileNames) THEN "returned" ELSE "walk"
       IN  IF Ignored(name)
           THEN /\ pc' = next
                /\ idx' = idx + 1
                /\ UNCHANGED puts
           ELSE IF ~CanRead(Join(args.local, name))
           THEN /\ pc' = "raised"
                /\ UNCHANGED << idx, puts >>
           ELSE /\ puts' = Append(puts, PutRequest(name))
                /\ pc' = next
                /\ idx' = idx + 1
    /\ UNCHANGED << s3, op, args, result, pending, issued, calls, prev,
                    deleteVars, fileNames, downloadVars >>

\* A fired upload settles, and the SDK calls its callback: with the data
\* once the object is stored, or with the error.
PutSettles(i) ==
    /\ i \in DOMAIN puts
    /\ puts[i].state = "sent"
    /\ \/ /\ s3' = PutObject(s3, puts[i].Key, puts[i].Body)
          /\ puts' = [puts EXCEPT ![i].state = "stored", ![i].callbacks = @ + 1]
       \/ /\ puts' = [puts EXCEPT ![i].state = "failed", ![i].callbacks = @ + 1]
          /\ UNCHANGED s3
    /\ UNCHANGED << callVars, deleteVars, fileNames, idx, downloadVars >>

NextFolder ==
    \/ \E folder \in Folders : PutFolderAsync(folder, "up")
    \/ \E folder \in Folders : UploadFolder(folder, "up")
    \/ WalkEntry
    \/ \E i \in DOMAIN puts : PutSettles(i)

SpecFolder == Init /\ [][NextFolder]_vars

FolderCall == op \in FolderOps

\* The uploads the current call has fired.
Fired == {i \in DOMAIN puts : puts[i].call = calls}

\* Callback invocations for the uploads of the current call.
Called == {i \in Fired : puts[i].callbacks > 0}

(***************************************************************************)
(* C6.  A folder upload of a folder with more than 10,000 direct entries   *)
(* fires no upload, has no callback invoked, and returns normally: the     *)
(* call is over in its first step and did not raise.                       *)
(***************************************************************************)
C6_OverCeiling ==
    /\ FolderCall
    /\ FolderExists(args.local)
    /\ Len(ReadDir(args.local)) > Ceiling

C6_OverCeilingNoUpload ==
    C6_OverCeiling =>
        /\ pc = "returned"
        /\ Fired = {}
        /\ Called = {}

C6_Witness ==
    /\ C6_OverCeiling
    /\ args.local = "huge"
    /\ pc = "returned"

(***************************************************************************)
(* C7.  A folder upload of an empty or missing folder aborts up front: the *)
(* call is over in its first step, no upload is fired and no callback is   *)
(* invoked.                                                                *)
(***************************************************************************)
C7_EmptyOrMissing ==
    /\ FolderCall
    /\ \/ ~FolderExists(args.local)
       \/ ReadDir(args.local) = << >>

C7_EmptyOrMissingNoUpload ==
    C7_EmptyOrMissing =>
        /\ pc \in {"returned", "raised"}
        /\ Fired = {}
        /\ Called = {}

C7_Witness ==
    /\ C7_EmptyOrMissing
    /\ args.local = "empty"
    /\ pc = "returned"
    /\ Fired = {}

(***************************************************************************)
(* C8.  When a folder upload of a non-empty folder within the ceiling has  *)
(* ended, it has fired exactly one upload for each direct entry that is no *)
(* subdirectory, under the key prefix/name, and none for a subdirectory;   *)
(* and each upload, once settled, has had its callback invoked exactly     *)
(* once, never more.                                                       *)
(***************************************************************************)
C8_Within ==
    /\ FolderCall
    /\ FolderExists(args.local)
    /\ ReadDir(args.local) # << >>
    /\ Len(ReadDir(args.local)) <= Ceiling

\* The uploads of the current call under the key of an entry.
FiredFor(name) == {i \in Fired : puts[i].Key = args.remote \o "/" \o name}

C8_OneUploadPerFile ==
    (C8_Within /\ pc \in {"returned", "raised"}) =>
        /\ \A name \in Range(ReadDir(args.local)) :
              Cardinality(FiredFor(name)) =
                  IF DirectoryExisted(Join(args.local, name)) THEN 0 ELSE 1
        /\ \A i \in Fired :
              /\ puts[i].callbacks <= 1
              /\ puts[i].state # "sent" => puts[i].callbacks = 1

(***************************************************************************)
(* Downloads: DownloadObjectsAsync (lines 593-616; lines 137-160 and       *)
(* 335-358 are the same body).  The forEach callback is async and forEach  *)
(* awaits nothing: each callback runs to its first await (the directory    *)
(* creation) inside the loop, and the rest of it runs after the method has *)
(* returned.                                                               *)
(***************************************************************************)
OutDir == "out"

DownloadPrefixes == {"wm/test", "top", ""}

\* The callback up to its await, left as if the await had been synchronous.
Callback_Awaited(key) ==
    [call  |-> calls,
     Key   |-> key,
     path  |-> Join(args.local, key),
     want  |-> IF key \in DOMAIN uploaded THEN uploaded[key] ELSE "",
     state |-> "piping"]

\* One forEach callback up to its await: out_filePath is computed and
\* MkDirsOrThrowAsync(out_dirPath) is under way.  want is the body
\* UploadFileAsync stored under the key ("" if it stored none).
Callback(key) ==
    [call  |-> calls,
     Key   |-> key,
     path  |-> Join(args.local, key),
     want  |-> IF key \in DOMAIN uploaded THEN uploaded[key] ELSE "",
     state |-> "mkdir"]

\* Every started download has come to its end.
Quiet ==
    \A i \in DOMAIN streams :
        streams[i].state \in {"finished", "enoent", "aborted", "rejected"}

DownloadObjectsAsync(outDir, prefix) ==
    /\ Quiet
    /\ Begin("DownloadObjectsAsync",
             [NoArgs EXCEPT !.local = outDir, !.remote = prefix])
    /\ pc' = "list"
    /\ pending' = {ListRequest(prefix)}
    /\ issued' = {ListRequest(prefix)}
    /\ result' = NoResult
    /\ streams' = << >>
    /\ UNCHANGED << s3, folderVars, dirs, files, uploaded >>

\* The awaited listing settles: forEach starts one callback per listed key
\* and the method returns; or the rejection leaves the method.
DownloadListed ==
    /\ op = "DownloadObjectsAsync"
    /\ pc = "list"
    /\ \/ LET listing == ListObjectsV2(s3, args.remote)
          IN  /\ listResult' = listing
              /\ streams' = [i \in 1..Len(listing.Contents) |->
                                Callback(listing.Contents[i])]
              /\ pc' = "returned"
       \/ /\ pc' = "raised"
          /\ UNCHANGED << listResult, streams >>
    /\ pending' = {}
    /\ UNCHANGED << s3, op, args, result, issued, calls, prev, deleted, clean,
                    folderVars, dirs, files, uploaded >>

\* The directory MkDirsOrThrowAsync is given: out_dirPath.
MadeDir(stream) == args.local

\* MkDirsOrThrowAsync settles: the directory is there and the callback sets
\* the streams up (getObject's read stream piped into the write stream of
\* out_filePath); or it throws and the callback ends as a rejection nobody
\* awaits.
MkDirSettles(i) ==
    /\ i \in DOMAIN streams
    /\ streams[i].state = "mkdir"
    /\ \/ /\ dirs' = dirs \cup {MadeDir(streams[i])}
          /\ streams' = [streams EXCEPT ![i].state = "piping"]
       \/ /\ streams' = [streams EXCEPT ![i].state = "rejected"]
          /\ UNCHANGED dirs
    /\ UNCHANGED << s3, callVars, deleteVars, folderVars, files, uploaded >>

\* The piped streams settle.  The write stream opens its file only in a
\* directory that exists (ENOENT if not); then the object's bytes arrive, or
\* the read stream fails and leaves the file cut short.
StreamSettles(i) ==
    /\ i \in DOMAIN streams
    /\ streams[i].state = "piping"
    /\ IF Dirname(streams[i].path) \notin dirs
       THEN /\ streams' = [streams EXCEPT ![i].state = "enoent"]
            /\ UNCHANGED files
       ELSE \/ /\ streams[i].Key \in DOMAIN s3
               /\ files' = PutObject(files, streams[i].path, s3[streams[i].Key])
               /\ streams' = [streams EXCEPT ![i].state = "finished"]
            \/ /\ files' = PutObject(files, streams[i].path, "")
               /\ streams' = [streams EXCEPT ![i].state = "aborted"]
    /\ UNCHANGED << s3, callVars, deleteVars, folderVars, dirs, uploaded >>

\* The output tree a run starts with: nothing, or the tree of an earlier
\* download.
InitDownload ==
    /\ InitCommon
    /\ s3 \in InitialBuckets
    /\ dirs \in {{}, {"out", "out/wm", "out/wm/test"}}

NextDownload ==
    \/ \E key \in Keys1 : UploadFileAsync("data/clip.mp4", key, "null")
    \/ SendSettles
    \/ \E prefix \in DownloadPrefixes : DownloadObjectsAsync(OutDir, prefix)
    \/ DownloadListed
    \/ \E i \in DOMAIN streams : MkDirSettles(i)
    \/ \E i \in DOMAIN streams : StreamSettles(i)

SpecDownload == InitDownload /\ [][NextDownload]_vars

Downloading == op = "DownloadObjectsAsync"

(***************************************************************************)
(* C9.  A batch operation does not fail once it has issued a request: a    *)
(* folder upload that raised has fired no upload, and a download that      *)
(* raised has started no download.                                         *)
(***************************************************************************)
C9_NoFailureAfterFirstRequest ==
    /\ (FolderCall /\ pc = "raised") => Fired = {}
    /\ (Downloading /\ pc = "raised") => streams = << >>

(***************************************************************************)
(* C5.  Round trip: once the download of a key that UploadFileAsync had    *)
(* stored has come to its end without a failure of the remote side or of   *)
(* the directory creation, the local file at join(outputDir, key) exists   *)
(* and holds the bytes that were uploaded.                                 *)
(***************************************************************************)
C5_RoundTrip ==
    \A i \in DOMAIN streams :
        (streams[i].want # "" /\ streams[i].state \in {"finished", "enoent"}) =>
            /\ streams[i].path \in DOMAIN files
            /\ files[streams[i].path] = streams[i].want

(***************************************************************************)
(* C10, as stated.  At the step in which DownloadObjectsAsync returns, the *)
(* streams of every listed object have been set up.                        *)
(***************************************************************************)
Returns == Downloading /\ pc = "list" /\ pc' = "returned"

C10_SetUpAtReturn ==
    [][Returns =>
          \A k \in Range(listResult'.Contents) :
              \E i \in DOMAIN streams' :
                  /\ streams'[i].Key = k
                  /\ streams'[i].state \in {"piping", "finished"}]_vars

(***************************************************************************)
(* C10, amended.  DownloadObjectsAsync returns once the listing has        *)
(* resolved and forEach has started the callback of every listed object:   *)
(* at the step in which it returns, every listed object has a callback     *)
(* that waits for the directory creation and none has its streams set up;  *)
(* the set-up and the bytes follow the return.                             *)
(***************************************************************************)
C10_StartedAtReturn ==
    [][Returns =>
          /\ Len(streams') = Len(listResult'.Contents)
          /\ \A i \in DOMAIN streams' :
              /\ streams'[i].Key = listResult'.Contents[i]
              /\ streams'[i].call = calls
              /\ streams'[i].state = "mkdir"]_vars

\* The method has returned and the callbacks of a full page wait.
C10_Witness ==
    /\ Downloading
    /\ pc = "returned"
    /\ Len(streams) = PageSize
    /\ \A i \in DOMAIN streams : streams[i].state = "mkdir"

====
